---- MODULE Spec2Model ----
(***************************************************************************)
(* Model of reviewly: main.py (orchestrator), reviewly/github_client.py    *)
(* (GitHubClient: cache + fetch of pull-request review comments) and       *)
(* reviewly/analyzer.py (DeepseekAnalyzer: two-stage summarization).       *)
(*                                                                         *)
(* Three specifications share the variables:                               *)
(*   Spec          - runs of main() (the CLI may be run again; the cache   *)
(*                   file stays on disk between runs)                      *)
(*   SpecFetch     - a client calling GitHubClient.get_pr_reviews with     *)
(*                   any limit / use_cache, repeatedly                     *)
(*   SpecSummarize - a client calling DeepseekAnalyzer.analyze_reviews on  *)
(*                   any list of reviews                                   *)
(***************************************************************************)
EXTENDS Integers, Sequences, FiniteSets, TLC

\* ---------------------------------------------------------------- bounds
\* closed pull requests the hosting API holds
MaxPRs == 2
\* review comments of one pull request
MaxComments == 2
\* largest limit a client of get_pr_reviews passes
MaxLimit == 2
\* pull requests in the input of analyze_reviews (more than two batches)
MaxGroups == 12
\* records in an input of analyze_reviews that mixes the pull requests
MaxRecords == 3
\* pieces of a repository identifier after its scheme and host, if any
MaxUrlLen == 5
\* characters of a code chunk (beyond the truncation length)
MaxChunkLen == 502
\* characters of an owner or repository name
MaxNameLen == 3

\* ------------------------------------------------------ program constants
\* main.py: github_client.get_pr_reviews(limit=50)
MainLimit == 50
\* analyzer.py: batch_size = 5
batch_size == 5
\* analyzer.py: code_chunk[:500], len(code_chunk) > 500
TruncateAt == 500

None == "None"
\* Optional[List[ReviewData]]: None, or a list
NoList == [some |-> FALSE, val |-> <<>>]
SomeList(l) == [some |-> TRUE, val |-> l]
\* the texts the LLM may answer with
Responses == {"r1", "r2"}
\* "\n\n", the separator of the stage-2 context
BlankLine == "\n\n"

VARIABLES
    \* hosting API (environment)
    pulls,        \* closed pull requests, most recently updated first
    ncomments,    \* review comments each pull request has
    \* disk
    cacheFile,    \* <owner>_<repo>_reviews.json
    outputFile,   \* pr_checklist.md
    \* main()
    pc,           \* position of main(), in the orchestrator's state names
    error,        \* the exception main() reported or died of
    absent,       \* the configuration values the environment does not set
    initOutcome,  \* how the construction of the clients went
    initCalls,    \* the hosting API calls GitHubClient.__init__ made
    initMessage,  \* str(e) of the exception the construction raised
    \* GitHubClient.get_pr_reviews
    fpc,          \* position in get_pr_reviews
    limit,        \* argument
    use_cache,    \* argument
    cached,       \* local: what _load_from_cache returned
    reviews,      \* local: records collected so far
    prIdx,        \* index of the pull request the loop is at
    contacted,    \* this call made a pull-request or comment request
    warnings,     \* warnings this call printed to stderr
    result,       \* the value get_pr_reviews returned
    \* DeepseekAnalyzer.analyze_reviews
    apc,          \* position in analyze_reviews
    areviews,     \* argument: the reviews to analyze
    pr_groups,    \* local: _group_reviews_by_pr(reviews)
    i,            \* local: offset of the current batch
    summaries,    \* local: stage-1 summaries collected so far
    llmLog,       \* the calls made to the LLM, in order
    checklist,    \* the value analyze_reviews returned
    \* GitHubClient._parse_repo_url
    repo_url,     \* argument
    parsed,       \* what the call returned or raised
    \* DeepseekAnalyzer._prepare_context, the code of one record
    code_chunk,   \* review.code_chunk
    code,         \* the text put in the fenced block
    \* GitHubClient._get_cache_path, of two clients
    repoIds,      \* (owner, repo_name) of either client
    cachePaths    \* the file name either client computed

hostVars == <<pulls, ncomments>>
mainVars == <<pc, error>>
initVars == <<absent, initOutcome, initCalls, initMessage>>
pureVars == <<repo_url, parsed, code_chunk, code, repoIds, cachePaths>>
fetchVars == <<fpc, limit, use_cache, cached, reviews, prIdx, contacted, warnings, result>>
analyzeVars == <<apc, areviews, pr_groups, i, summaries, llmLog, checklist>>
vars == <<pulls, ncomments, cacheFile, outputFile, pc, error, fpc, limit, use_cache,
          cached, reviews, prIdx, contacted, warnings, result, apc, pr_groups, i,
          summaries, llmLog, checklist, absent, initOutcome, initCalls, initMessage,
          areviews, repo_url, parsed, code_chunk, code, repoIds, cachePaths>>

\* ---------------------------------------------------------------- helpers
Min(a, b) == IF a < b THEN a ELSE b

\* s[:n]
Take(s, n) == SubSeq(s, 1, Min(n, Len(s)))

\* s[a:b], a and b zero-based as in Python
Slice(s, a, b) == SubSeq(s, a + 1, Min(b, Len(s)))

\* ReviewData of the c-th comment of pull request p
ReviewData(p, c) == [pr_number |-> p, review_comment |-> c]

\* the records of the first k comments of pull request p, in source order
CommentRecords(p, k) == [c \in 1..k |-> ReviewData(p, c)]

\* the cache file does not exist
Absent == [exists |-> FALSE, items |-> <<>>, complete |-> FALSE]

\* a cache file holding the whole JSON array of the records
Snapshot(records) == [exists |-> TRUE, items |-> records, complete |-> TRUE]

\* a cache file opened for writing and not (yet) written to the end
Partial(records) == [exists |-> TRUE, items |-> records, complete |-> FALSE]

\* _load_from_cache: the records of the file; None when the file is absent
\* or json.load fails on it
LoadFromCache ==
    IF cacheFile.exists /\ cacheFile.complete THEN SomeList(cacheFile.items) ELSE NoList

\* `if cached:` - None and the empty list are both falsy
Truthy(v) == v.some /\ v.val # <<>>

\* off by one: one pull request more than the limit
PullsSlice_OneMore == Take(pulls, limit + 1)

\* pulls[:limit]
PullsSlice == Take(pulls, limit)

FetchReturned == {"returned_cache", "returned_fresh"}
FetchActive == {"call", "list", "loop", "save_open", "save_dump"}
AnalyzeActive == {"call", "batches", "stage2"}
MainActive == {"Fetching", "Summarizing"}

\* ------------------------------------------------------------------- Init
\* the hosting API holds n pull requests; their numbers fall with the
\* position because the list is sorted by update time descending
Hostings ==
    { h \in [n : 0..MaxPRs, c : [1..MaxPRs -> 0..MaxComments]] :
        \A p \in 1..MaxPRs : p > h.n => h.c[p] = 0 }

InitProcess ==
    /\ cacheFile = Absent
    /\ outputFile = None
    /\ pc = "Idle"
    /\ error = None
    /\ fpc = "idle"
    /\ limit = 0
    /\ use_cache = TRUE
    /\ cached = NoList
    /\ reviews = <<>>
    /\ prIdx = 1
    /\ contacted = FALSE
    /\ warnings = {}
    /\ result = <<>>
    /\ apc = "idle"
    /\ areviews = <<>>
    /\ pr_groups = <<>>
    /\ i = 0
    /\ summaries = <<>>
    /\ llmLog = <<>>
    /\ checklist = None
    /\ absent = {}
    /\ initOutcome = None
    /\ initCalls = <<>>
    /\ initMessage = <<>>

\* no call of the pure functions is under way
InitPure ==
    /\ repo_url = <<>>
    /\ parsed = [state |-> "none", owner |-> <<>>, repo_name |-> <<>>]
    /\ code_chunk = <<>>
    /\ code = [state |-> "none", text |-> <<>>]
    /\ repoIds = <<>>
    /\ cachePaths = <<>>

Init ==
    /\ \E h \in Hostings :
        /\ pulls = [k \in 1..h.n |-> h.n - k + 1]
        /\ ncomments = h.c
    /\ InitProcess
    /\ InitPure

\* ------------------------------------------- GitHubClient.get_pr_reviews
\* the state a call of get_pr_reviews(l, u) starts in
EnterFetch(l, u) ==
    /\ fpc' = "call"
    /\ limit' = l
    /\ use_cache' = u
    /\ cached' = NoList
    /\ reviews' = <<>>
    /\ prIdx' = 1
    /\ contacted' = FALSE
    /\ warnings' = {}
    /\ result' = <<>>

\* lines 145-150: the cache check
CheckCache ==
    /\ fpc = "call"
    /\ LET c == IF use_cache THEN LoadFromCache ELSE NoList
       IN  /\ cached' = c
           /\ warnings' = IF use_cache /\ cacheFile.exists /\ ~cacheFile.complete
                          THEN warnings \cup {[kind |-> "load", pr |-> 0]}
                          ELSE warnings
           /\ IF Truthy(c)
              THEN /\ fpc' = "returned_cache"
                   /\ result' = c.val
              ELSE /\ fpc' = "list"
                   /\ result' = result
    /\ UNCHANGED <<limit, use_cache, reviews, prIdx, contacted>>
    /\ UNCHANGED <<hostVars, initVars, pureVars, cacheFile, outputFile, mainVars, analyzeVars>>

\* lines 153-155: the first page of the closed pull requests is requested
\* when the loop starts, unless the slice [:0] is already exhausted
ListPulls ==
    /\ fpc = "list"
    /\ \E ok \in BOOLEAN :
        /\ (limit = 0) => ok
        /\ contacted' = (limit > 0)
        /\ fpc' = IF ok THEN "loop" ELSE "raised"
    /\ UNCHANGED <<limit, use_cache, cached, reviews, prIdx, warnings, result>>
    /\ UNCHANGED <<hostVars, initVars, pureVars, cacheFile, outputFile, mainVars, analyzeVars>>

\* line 155: the request of a later page of pull requests fails; nothing
\* catches it inside get_pr_reviews
ListPullsFail ==
    /\ fpc = "loop"
    /\ 1 < prIdx /\ prIdx <= Len(PullsSlice)
    /\ fpc' = "raised"
    /\ UNCHANGED <<limit, use_cache, cached, reviews, prIdx, contacted, warnings, result>>
    /\ UNCHANGED <<hostVars, initVars, pureVars, cacheFile, outputFile, mainVars, analyzeVars>>

\* the comments a failing iteration may have yielded before it throws: the
\* request of any page of comments can fail, and the page size is the
\* hosting API's, so the failure may fall before any comment
FailPoints(p) == IF ncomments[p] = 0 THEN {0} ELSE 0..(ncomments[p] - 1)

\* what the loop body appends when the iteration throws after k comments
AppendedBeforeFailure(p, k) == CommentRecords(p, k)

\* lines 155-179: the body of the loop, for the pull request at prIdx
ProcessPR ==
    /\ fpc = "loop"
    /\ prIdx <= Len(PullsSlice)
    /\ LET p == PullsSlice[prIdx]
       IN  \/ /\ reviews' = reviews \o CommentRecords(p, ncomments[p])
              /\ warnings' = warnings
           \/ \E k \in FailPoints(p) :
              /\ reviews' = reviews \o AppendedBeforeFailure(p, k)
              /\ warnings' = warnings \cup {[kind |-> "pr", pr |-> p]}
    /\ prIdx' = prIdx + 1
    /\ contacted' = TRUE
    /\ UNCHANGED <<fpc, limit, use_cache, cached, result>>
    /\ UNCHANGED <<hostVars, initVars, pureVars, cacheFile, outputFile, mainVars, analyzeVars>>

\* lines 181-182: the loop is over, _save_to_cache is entered
EndLoop ==
    /\ fpc = "loop"
    /\ prIdx > Len(PullsSlice)
    /\ fpc' = "save_open"
    /\ UNCHANGED <<limit, use_cache, cached, reviews, prIdx, contacted, warnings, result>>
    /\ UNCHANGED <<hostVars, initVars, pureVars, cacheFile, outputFile, mainVars, analyzeVars>>

\* no handler around the write: the failure of open leaves get_pr_reviews
SaveOpen_NoCatch ==
    /\ fpc = "save_open"
    /\ \/ /\ cacheFile' = Partial(<<>>)
          /\ fpc' = "save_dump"
       \/ /\ cacheFile' = cacheFile
          /\ fpc' = "raised"
    /\ UNCHANGED <<limit, use_cache, cached, reviews, prIdx, contacted, warnings, result>>
    /\ UNCHANGED <<hostVars, initVars, pureVars, outputFile, mainVars, analyzeVars>>

\* line 138: open(cache_path, 'w') truncates the file, or fails and leaves
\* it alone; lines 140-141 and 183 then warn and return the reviews
SaveOpen ==
    /\ fpc = "save_open"
    /\ \/ /\ cacheFile' = Partial(<<>>)
          /\ fpc' = "save_dump"
          /\ UNCHANGED <<warnings, result>>
       \/ /\ cacheFile' = cacheFile
          /\ warnings' = warnings \cup {[kind |-> "save", pr |-> 0]}
          /\ fpc' = "returned_fresh"
          /\ result' = reviews
    /\ UNCHANGED <<limit, use_cache, cached, reviews, prIdx, contacted>>
    /\ UNCHANGED <<hostVars, initVars, pureVars, outputFile, mainVars, analyzeVars>>

\* what a write that fails after k records leaves in the file
WrittenBeforeFailure(k) == Partial(Take(reviews, k))

\* line 139 and the end of the with block: json.dump writes the records
\* and the file is closed, or a write fails part way (lines 140-141);
\* line 183 returns the reviews either way
SaveDump ==
    /\ fpc = "save_dump"
    /\ \/ /\ cacheFile' = Snapshot(reviews)
          /\ warnings' = warnings
       \/ \E k \in 0..Len(reviews) :
          /\ cacheFile' = WrittenBeforeFailure(k)
          /\ warnings' = warnings \cup {[kind |-> "save", pr |-> 0]}
    /\ fpc' = "returned_fresh"
    /\ result' = reviews
    /\ UNCHANGED <<limit, use_cache, cached, reviews, prIdx, contacted>>
    /\ UNCHANGED <<hostVars, initVars, pureVars, outputFile, mainVars, analyzeVars>>

\* a client calls get_pr_reviews(l, u) on a constructed GitHubClient; after
\* an interrupt the client is a new process
CallFetch ==
    /\ pc = "Idle"
    /\ fpc \in {"idle", "raised", "interrupted"} \cup FetchReturned
    /\ \E l \in 0..MaxLimit, u \in BOOLEAN : EnterFetch(l, u)
    /\ UNCHANGED <<hostVars, initVars, pureVars, cacheFile, outputFile, mainVars, analyzeVars>>

\* the user interrupts the process (KeyboardInterrupt is no Exception: no
\* handler of the program catches it)
Interrupt ==
    /\ pc \in MainActive \/ fpc \in FetchActive \/ apc \in AnalyzeActive
    /\ pc' = IF pc \in MainActive THEN "Interrupted" ELSE pc
    /\ fpc' = IF fpc \in FetchActive THEN "interrupted" ELSE fpc
    /\ apc' = IF apc \in AnalyzeActive THEN "interrupted" ELSE apc
    /\ UNCHANGED <<error, limit, use_cache, cached, reviews, prIdx, contacted, warnings, result>>
    /\ UNCHANGED <<areviews, pr_groups, i, summaries, llmLog, checklist>>
    /\ UNCHANGED <<hostVars, initVars, pureVars, cacheFile, outputFile>>

NextFetch ==
    \/ CallFetch
    \/ CheckCache
    \/ ListPulls
    \/ ListPullsFail
    \/ ProcessPR
    \/ EndLoop
    \/ SaveOpen
    \/ SaveDump
    \/ Interrupt

SpecFetch == Init /\ [][NextFetch]_vars

\* --------------------------------------- DeepseekAnalyzer.analyze_reviews
\* _group_reviews_by_pr, the loop: pr_dict is the dict so far, as its
\* values in insertion order
RECURSIVE GroupFold(_, _)
GroupFold(rs, pr_dict) ==
    IF rs = <<>> THEN pr_dict
    ELSE LET review == Head(rs)
             at == {g \in 1..Len(pr_dict) : pr_dict[g][1].pr_number = review.pr_number}
         IN  IF at = {}
             THEN GroupFold(Tail(rs), Append(pr_dict, <<review>>))
             ELSE GroupFold(Tail(rs),
                    [pr_dict EXCEPT ![CHOOSE g \in at : TRUE] = Append(@, review)])

\* the numbers of s in rising order
RECURSIVE SortSet(_)
SortSet(S) ==
    IF S = {} THEN <<>>
    ELSE LET m == CHOOSE x \in S : \A y \in S : x <= y
         IN  <<m>> \o SortSet(S \ {m})

\* the groups come out sorted by pull request number
GroupReviewsByPr_Sorted(rs) ==
    LET ks == SortSet({rs[k].pr_number : k \in DOMAIN rs})
    IN  [g \in 1..Len(ks) |-> SelectSeq(rs, LAMBDA r : r.pr_number = ks[g])]

\* _group_reviews_by_pr
GroupReviewsByPr(rs) == GroupFold(rs, <<>>)

\* "\n\n".join(summaries), a text being the sequence of its pieces
RECURSIVE Join(_, _)
Join(ss, sep) ==
    IF ss = <<>> THEN <<>>
    ELSE IF Len(ss) = 1 THEN <<ss[1]>>
    ELSE <<ss[1], sep>> \o Join(Tail(ss), sep)

\* the slice ends one group early
Batch_OneShort(groups, off) == Slice(groups, off, off + batch_size - 1)

\* pr_groups[i:i + batch_size]
Batch(groups, off) == Slice(groups, off, off + batch_size)

\* the state a call of analyze_reviews(rs) starts the loop in (lines 66-80)
EnterAnalyze(rs) ==
    /\ apc' = "batches"
    /\ areviews' = rs
    /\ pr_groups' = GroupReviewsByPr(rs)
    /\ i' = 0
    /\ summaries' = <<>>
    /\ llmLog' = <<>>
    /\ checklist' = None

\* the summary is put in front of the list
Collect_Prepend(ss, r) == <<r>> \o ss

\* what the loop does with the answer of a stage-1 call that succeeded
Collect(ss, r) == Append(ss, r)

\* lines 82-94: one batch; the LLM answers, or the call fails and the
\* batch is skipped
Stage1Batch ==
    /\ apc = "batches"
    /\ i < Len(pr_groups)
    /\ \/ \E r \in Responses :
          /\ summaries' = Collect(summaries, r)
          /\ llmLog' = Append(llmLog, [stage |-> 1, off |-> i, reply |-> r,
                                       context |-> <<Batch(pr_groups, i)>>])
       \/ /\ summaries' = summaries
          /\ llmLog' = Append(llmLog, [stage |-> 1, off |-> i, reply |-> "error",
                                       context |-> <<Batch(pr_groups, i)>>])
    /\ i' = i + batch_size
    /\ UNCHANGED <<apc, areviews, pr_groups, checklist>>
    /\ UNCHANGED <<hostVars, initVars, pureVars, cacheFile, outputFile, mainVars, fetchVars>>

\* any failed batch is taken for a failure of the whole stage
NoSummaries_AnyFailed(ss) == Len(ss) * batch_size < Len(pr_groups)

\* the check of the summaries is missing
NoSummaries_Never(ss) == FALSE

\* `if not summaries`
NoSummaries(ss) == ss = <<>>

\* lines 96-97: the loop is over
Stage1End ==
    /\ apc = "batches"
    /\ i >= Len(pr_groups)
    /\ apc' = IF NoSummaries(summaries) THEN "raised" ELSE "stage2"
    /\ UNCHANGED <<areviews, pr_groups, i, summaries, llmLog, checklist>>
    /\ UNCHANGED <<hostVars, initVars, pureVars, cacheFile, outputFile, mainVars, fetchVars>>

\* the context of the stage-2 call
FinalContext(ss) == Join(ss, BlankLine)

\* lines 100-105: the reduce call; its answer is returned, its failure is
\* raised as a RuntimeError
Stage2 ==
    /\ apc = "stage2"
    /\ \/ \E r \in Responses :
          /\ llmLog' = Append(llmLog, [stage |-> 2, off |-> 0, reply |-> r,
                                       context |-> FinalContext(summaries)])
          /\ checklist' = r
          /\ apc' = "returned"
       \/ /\ llmLog' = Append(llmLog, [stage |-> 2, off |-> 0, reply |-> "error",
                                       context |-> FinalContext(summaries)])
          /\ checklist' = checklist
          /\ apc' = "raised"
    /\ UNCHANGED <<areviews, pr_groups, i, summaries>>
    /\ UNCHANGED <<hostVars, initVars, pureVars, cacheFile, outputFile, mainVars, fetchVars>>

\* the lists a client passes to analyze_reviews: n pull requests of c
\* comments each
AnalyzeInputs ==
    { [k \in 1..(n * c) |-> ReviewData(((k - 1) \div c) + 1, ((k - 1) % c) + 1)] :
        n \in 0..MaxGroups, c \in 1..MaxComments }

\* the lists that mix the pull requests in any order: the k-th record is
\* the k-th comment fetched
MixedInputs ==
    UNION { { [k \in 1..n |-> ReviewData(ps[k], k)] : ps \in [1..n -> 1..(MaxPRs + 1)] } :
            n \in 0..MaxRecords }

\* a client calls analyze_reviews(rs)
CallAnalyze ==
    /\ pc = "Idle"
    /\ apc \in {"idle", "returned", "raised", "interrupted"}
    /\ \E rs \in AnalyzeInputs \cup MixedInputs : EnterAnalyze(rs)
    /\ UNCHANGED <<hostVars, initVars, pureVars, cacheFile, outputFile, mainVars, fetchVars>>

InitSummarize ==
    /\ pulls = <<>>
    /\ ncomments = [p \in 1..MaxPRs |-> 0]
    /\ InitProcess
    /\ InitPure

NextSummarize ==
    \/ CallAnalyze
    \/ Stage1Batch
    \/ Stage1End
    \/ Stage2
    \/ Interrupt

SpecSummarize == InitSummarize /\ [][NextSummarize]_vars

\* ----------------------------------------------------------------- main()
\* the values get_config reads from the environment
ConfigValues == {"GITHUB_TOKEN", "GITHUB_REPO_URL", "DEEPSEEK_API_KEY"}

\* how the construction of the GitHubClient may go (__init__)
ClientInitOutcomes ==
    {"ok", "auth_401", "auth_other", "bad_url", "repo_404", "repo_403", "repo_other"}

AuthFailures == {"auth_401", "auth_other"}
RepoFailures == {"repo_404", "repo_403", "repo_other"}

\* the outcomes the environment allows: get_config turns an absent value
\* into "", so an absent token is rejected by get_user and an absent URL
\* fails _parse_repo_url once the authentication went through
ClientInitPossible(a, o) ==
    /\ ("GITHUB_TOKEN" \in a) => o \in AuthFailures
    /\ ("GITHUB_REPO_URL" \in a) => o \in AuthFailures \cup {"bad_url"}

\* the exception __init__ raises: an authentication failure is re-raised
\* as it is; the repo property turns every failure into a ValueError
ClientInitError(o) ==
    IF o \in {"auth_401", "auth_other"} THEN "GithubException" ELSE "ValueError"

\* the hosting API calls __init__ has made when it returns or raises:
\* get_user (line 40) comes first, get_repo (line 111) after the URL parsed
ClientInitCalls(o) ==
    IF o \in AuthFailures \cup {"bad_url"} THEN <<"get_user">>
    ELSE <<"get_user", "get_repo">>

\* str(e) of the exception the hosting API answered with: a
\* GithubException prints its status
HostingErrorText(o) ==
    CASE o = "auth_401" -> "401"
      [] o = "repo_404" -> "404"
      [] o = "repo_403" -> "403"
      [] OTHER -> "other"

\* the message lost its cause: `Error: {str(e)}` is left out
ClientInitMessage_NoCause(o) ==
    CASE o \in AuthFailures -> <<HostingErrorText(o)>>
      [] o = "bad_url" -> <<"Invalid repository URL format: ">>
      [] o \in RepoFailures -> <<"Could not access repository ">>
      [] OTHER -> <<>>

\* str(e) of the exception __init__ raises (lines 45-48, 89, 113)
ClientInitMessage(o) ==
    CASE o \in AuthFailures -> <<HostingErrorText(o)>>
      [] o = "bad_url" -> <<"Invalid repository URL format: ">>
      [] o \in RepoFailures ->
            <<"Could not access repository ", ". Error: ", HostingErrorText(o)>>
      [] OTHER -> <<>>

\* lines 11-20: configuration and clients are built outside the try block,
\* then the fetch starts
MainStart ==
    /\ pc = "Idle"
    /\ \E a \in SUBSET ConfigValues, o \in ClientInitOutcomes :
        /\ ClientInitPossible(a, o)
        /\ absent' = a
        /\ initOutcome' = o
        /\ initCalls' = ClientInitCalls(o)
        /\ initMessage' = ClientInitMessage(o)
        /\ IF o = "ok"
           THEN /\ pc' = "Fetching"
                /\ error' = error
                /\ EnterFetch(MainLimit, TRUE)
           ELSE /\ pc' = "Crashed"
                /\ error' = ClientInitError(o)
                /\ UNCHANGED fetchVars
    /\ UNCHANGED <<hostVars, pureVars, cacheFile, outputFile, analyzeVars>>

\* the check of the fetched reviews is missing
NoReviews_Never(rs) == FALSE

\* `if not reviews`
NoReviews(rs) == rs = <<>>

\* lines 22-30: the fetch returned
MainFetched ==
    /\ pc = "Fetching"
    /\ fpc \in FetchReturned
    /\ IF NoReviews(result)
       THEN /\ pc' = "NothingToDo"
            /\ UNCHANGED analyzeVars
       ELSE /\ pc' = "Summarizing"
            /\ EnterAnalyze(result)
    /\ UNCHANGED <<error, hostVars, initVars, pureVars, cacheFile, outputFile, fetchVars>>

\* lines 41-42: the fetch raised
MainFetchRaised ==
    /\ pc = "Fetching"
    /\ fpc = "raised"
    /\ pc' = "Failed"
    /\ error' = "GithubException"
    /\ UNCHANGED <<hostVars, initVars, pureVars, cacheFile, outputFile, fetchVars, analyzeVars>>

\* lines 41-42: analyze_reviews raised
MainAnalyzeRaised ==
    /\ pc = "Summarizing"
    /\ apc = "raised"
    /\ pc' = "Failed"
    /\ error' = "RuntimeError"
    /\ UNCHANGED <<hostVars, initVars, pureVars, cacheFile, outputFile, fetchVars, analyzeVars>>

\* what `await v` does with the value analyze_reviews returned:
\* analyze_reviews is a plain function and v a str, which is not awaitable
AwaitOutcome(v) == "TypeError"

\* line 30, then 41-42: analyze_reviews returned the checklist and main()
\* awaits it; the TypeError is caught and reported, lines 33-39 never run
MainAwait ==
    /\ pc = "Summarizing"
    /\ apc = "returned"
    /\ pc' = "Failed"
    /\ error' = AwaitOutcome(checklist)
    /\ UNCHANGED <<hostVars, initVars, pureVars, cacheFile, outputFile, fetchVars, analyzeVars>>

\* lines 34-37: the document main() writes to pr_checklist.md
Document(c) ==
    <<"# PR Review Checklist\n\n",
      "This checklist was automatically generated based on recent PR reviews.\n\n",
      c>>

MainTerminal == {"Done", "Failed", "NothingToDo", "Crashed", "Interrupted"}

\* the user runs the program again: a new process, the same disk
Rerun ==
    /\ pc \in MainTerminal
    /\ pc' = "Idle"
    /\ error' = None
    /\ fpc' = "idle"
    /\ limit' = 0
    /\ use_cache' = TRUE
    /\ cached' = NoList
    /\ reviews' = <<>>
    /\ prIdx' = 1
    /\ contacted' = FALSE
    /\ warnings' = {}
    /\ result' = <<>>
    /\ apc' = "idle"
    /\ areviews' = <<>>
    /\ pr_groups' = <<>>
    /\ i' = 0
    /\ summaries' = <<>>
    /\ llmLog' = <<>>
    /\ checklist' = None
    /\ absent' = {}
    /\ initOutcome' = None
    /\ initCalls' = <<>>
    /\ initMessage' = <<>>
    /\ UNCHANGED <<hostVars, pureVars, cacheFile, outputFile>>

Next ==
    \/ MainStart
    \/ CheckCache
    \/ ListPulls
    \/ ListPullsFail
    \/ ProcessPR
    \/ EndLoop
    \/ SaveOpen
    \/ SaveDump
    \/ MainFetched
    \/ MainFetchRaised
    \/ Stage1Batch
    \/ Stage1End
    \/ Stage2
    \/ MainAnalyzeRaised
    \/ MainAwait
    \/ Interrupt
    \/ Rerun

Spec == Init /\ [][Next]_vars

\* ------------------------------------------ GitHubClient._parse_repo_url
\* A text is the sequence of its pieces: "/", ".git", "https:" and names
\* that hold none of "/", ".git", "http" and "git@".

\* `x in repo_url` for x = 'http' or 'git@'
HasSchemeMark(u) == \E k \in DOMAIN u : u[k] \in {"https:", "git@"}

\* the index of the first "/" of u, 0 when there is none
FirstSlash(u) ==
    IF \E k \in DOMAIN u : u[k] = "/"
    THEN CHOOSE k \in DOMAIN u : u[k] = "/" /\ \A j \in 1..(k - 1) : u[j] # "/"
    ELSE 0

\* u.split('/')
RECURSIVE Split(_)
Split(u) ==
    IF FirstSlash(u) = 0 THEN <<u>>
    ELSE <<SubSeq(u, 1, FirstSlash(u) - 1)>> \o Split(SubSeq(u, FirstSlash(u) + 1, Len(u)))

\* urlparse(u).path: what follows the scheme and, after "//", the host
UrlPath(u) ==
    LET rest == IF u # <<>> /\ u[1] = "https:" THEN Tail(u) ELSE u
        netloc == Len(rest) >= 2 /\ rest[1] = "/" /\ rest[2] = "/"
        after == SubSeq(rest, 3, Len(rest))
    IN  IF ~netloc THEN rest
        ELSE IF FirstSlash(after) = 0 THEN <<>>
        ELSE SubSeq(after, FirstSlash(after), Len(after))

\* path.rstrip('/')
RECURSIVE RStripSlash(_)
RStripSlash(t) ==
    IF t # <<>> /\ t[Len(t)] = "/" THEN RStripSlash(SubSeq(t, 1, Len(t) - 1)) ELSE t

\* lines 93-94: the .git extension is removed
StripDotGit(t) ==
    IF t # <<>> /\ t[Len(t)] = ".git" THEN SubSeq(t, 1, Len(t) - 1) ELSE t

Raised == [state |-> "raised", owner |-> <<>>, repo_name |-> <<>>]
Returned(o, r) == [state |-> "returned", owner |-> o, repo_name |-> r]

\* _parse_repo_url
ParseRepoUrl(u) ==
    IF FirstSlash(u) # 0 /\ ~HasSchemeMark(u)
    THEN LET parts == Split(u)
         IN  Returned(parts[Len(parts) - 1], parts[Len(parts)])
    ELSE IF UrlPath(u) = <<>> THEN Raised
    ELSE LET path == StripDotGit(RStripSlash(UrlPath(u)))
             parts == SelectSeq(Split(path), LAMBDA seg : seg # <<>>)
         IN  IF Len(parts) < 2 THEN Raised
             ELSE Returned(parts[Len(parts) - 1], parts[Len(parts)])

\* the pieces after the scheme and host
UrlBodies ==
    UNION { [1..n -> {"/", "Owner", "Repo", ".git"}] : n \in 0..MaxUrlLen }

\* the identifiers a caller passes: a body alone, after a host, or after a
\* scheme and a host
RepoUrls ==
    { pre \o body : pre \in {<<>>, <<"host">>, <<"https:", "/", "/", "host">>},
                    body \in UrlBodies }

\* __init__ calls _parse_repo_url(repo_url) (line 51)
ParseCall ==
    /\ parsed.state = "none"
    /\ parsed' = ParseRepoUrl(repo_url)
    /\ UNCHANGED <<repo_url, code_chunk, code, repoIds, cachePaths>>
    /\ UNCHANGED <<hostVars, initVars, cacheFile, outputFile, mainVars, fetchVars, analyzeVars>>

InitParse ==
    /\ pulls = <<>>
    /\ ncomments = [p \in 1..MaxPRs |-> 0]
    /\ InitProcess
    /\ repo_url \in RepoUrls
    /\ parsed = [state |-> "none", owner |-> <<>>, repo_name |-> <<>>]
    /\ code_chunk = <<>>
    /\ code = [state |-> "none", text |-> <<>>]
    /\ repoIds = <<>>
    /\ cachePaths = <<>>

NextParse == ParseCall

SpecParse == InitParse /\ [][NextParse]_vars

\* --------------------- DeepseekAnalyzer._prepare_context, the code chunk
\* "..."
Marker == <<".", ".", ".">>

\* the chunk is cut from 500 characters on
Truncate_AtLeast(chunk) ==
    IF Len(chunk) >= TruncateAt THEN SubSeq(chunk, 1, Min(TruncateAt, Len(chunk))) \o Marker
    ELSE chunk

\* line 131: code_chunk[:500] + "..." if len(code_chunk) > 500 else code_chunk
Truncate(chunk) ==
    IF Len(chunk) > TruncateAt THEN SubSeq(chunk, 1, Min(TruncateAt, Len(chunk))) \o Marker
    ELSE chunk

\* the chunks of a record: n characters, all c
Chunks == { [k \in 1..n |-> c] : n \in 0..MaxChunkLen, c \in {"x", "."} }

\* lines 129-132: an empty chunk gets no code block, another one is put in
\* the block truncated
RenderCode ==
    /\ code.state = "none"
    /\ code' = IF code_chunk = <<>> THEN [state |-> "skipped", text |-> <<>>]
               ELSE [state |-> "rendered", text |-> Truncate(code_chunk)]
    /\ UNCHANGED <<repo_url, parsed, code_chunk, repoIds, cachePaths>>
    /\ UNCHANGED <<hostVars, initVars, cacheFile, outputFile, mainVars, fetchVars, analyzeVars>>

InitRender ==
    /\ pulls = <<>>
    /\ ncomments = [p \in 1..MaxPRs |-> 0]
    /\ InitProcess
    /\ repo_url = <<>>
    /\ parsed = [state |-> "none", owner |-> <<>>, repo_name |-> <<>>]
    /\ code_chunk \in Chunks
    /\ code = [state |-> "none", text |-> <<>>]
    /\ repoIds = <<>>
    /\ cachePaths = <<>>

NextRender == RenderCode

SpecRender == InitRender /\ [][NextRender]_vars

\* ------------------------------------------ GitHubClient._get_cache_path
\* owner and repository names: letters and "_", a letter first and last
Names ==
    { nm \in UNION { [1..n -> {"a", "_"}] : n \in 1..MaxNameLen } :
        nm[1] = "a" /\ nm[Len(nm)] = "a" }

\* line 118: f"{self.owner}_{self.repo_name}_reviews.json"
CachePath(owner, repo_name) == owner \o <<"_">> \o repo_name \o <<"_reviews.json">>

\* two clients, each for its repository, compute their cache paths
CachePathCall ==
    /\ cachePaths = <<>>
    /\ cachePaths' = [k \in 1..2 |-> CachePath(repoIds[k][1], repoIds[k][2])]
    /\ UNCHANGED <<repo_url, parsed, code_chunk, code, repoIds>>
    /\ UNCHANGED <<hostVars, initVars, cacheFile, outputFile, mainVars, fetchVars, analyzeVars>>

InitCachePath ==
    /\ pulls = <<>>
    /\ ncomments = [p \in 1..MaxPRs |-> 0]
    /\ InitProcess
    /\ repo_url = <<>>
    /\ parsed = [state |-> "none", owner |-> <<>>, repo_name |-> <<>>]
    /\ code_chunk = <<>>
    /\ code = [state |-> "none", text |-> <<>>]
    /\ repoIds \in (Names \X Names) \X (Names \X Names)
    /\ cachePaths = <<>>

NextCachePath == CachePathCall

SpecCachePath == InitCachePath /\ [][NextCachePath]_vars

\* ================================================================ claims
\* the stage-1 and stage-2 calls of the log, as positions
Stage1Calls == {k \in DOMAIN llmLog : llmLog[k].stage = 1}
Stage2Calls == {k \in DOMAIN llmLog : llmLog[k].stage = 2}
Stage1Successes == {k \in Stage1Calls : llmLog[k].reply # "error"}
AnalyzeOver == apc \in {"returned", "raised"}

\* ceil(n / batch_size)
NumBatches(n) == (n + batch_size - 1) \div batch_size

SaveWarning == [kind |-> "save", pr |-> 0]
PrWarning(p) == [kind |-> "pr", pr |-> p]

\* the pull requests the records of rs belong to
PrNumbers(rs) == {rs[k].pr_number : k \in DOMAIN rs}

\* the records of rs that belong to pull request p, in the order of rs
RecordsOf(rs, p) == SelectSeq(rs, LAMBDA r : r.pr_number = p)

\* C1 (as claimed): a run whose fetch returned at least one record and whose
\* summarizer returned a Checklist ends in Done, with the document holding
\* the Checklist written to pr_checklist.md.
C1_RunEndsDone ==
    (/\ pc \in {"Done", "Failed", "NothingToDo"}
     /\ fpc \in FetchReturned
     /\ result # <<>>
     /\ apc = "returned")
    => (pc = "Done" /\ outputFile = Document(checklist))

\* C2: analyze_reviews raises if and only if no stage-1 call succeeded or
\* the stage-2 call failed; otherwise it returns the answer of the stage-2
\* call, which is the last call made.
C2_FailsIffNoSummaryOrReduceFails ==
    AnalyzeOver =>
        /\ (apc = "raised") <=>
              (\/ Stage1Successes = {}
               \/ \E k \in Stage2Calls : llmLog[k].reply = "error")
        /\ (apc = "returned") =>
              /\ Len(llmLog) \in Stage2Calls
              /\ checklist = llmLog[Len(llmLog)].reply

\* C2 witness: a run of three batches in which one batch failed, another
\* succeeded and the checklist was returned
C2_Witness ==
    /\ apc = "returned"
    /\ Cardinality(Stage1Calls) = 3
    /\ Stage1Calls \ Stage1Successes # {}

\* the answers of the successful stage-1 calls among the first n calls
OkReplies(n) ==
    LET ok == SelectSeq(SubSeq(llmLog, 1, n), LAMBDA e : e.stage = 1 /\ e.reply # "error")
    IN  [k \in 1..Len(ok) |-> ok[k].reply]

\* ctx is the members of ss in order, one BlankLine between neighbours
IsBlankLineJoin(ctx, ss) ==
    /\ Len(ctx) = (IF ss = <<>> THEN 0 ELSE 2 * Len(ss) - 1)
    /\ \A k \in 1..Len(ss) : ctx[2 * k - 1] = ss[k]
    /\ \A k \in 1..(Len(ss) - 1) : ctx[2 * k] = BlankLine

\* C3: when a stage-1 batch succeeded, stage 2 is called exactly once, after
\* one stage-1 call for every batch (in batch order, failed ones included),
\* and its context is the answers of the successful batches in batch order
\* with a blank line between them.
C3_Stage2OnceAfterAllBatches ==
    /\ Cardinality(Stage2Calls) <= 1
    /\ \A k \in Stage2Calls :
          /\ k = Len(llmLog)
          /\ Stage1Calls = 1..(k - 1)
          /\ k - 1 = NumBatches(Len(pr_groups))
          /\ \A j \in 1..(k - 1) : llmLog[j].off = (j - 1) * batch_size
          /\ IsBlankLineJoin(llmLog[k].context, OkReplies(k - 1))
    /\ (AnalyzeOver /\ Stage1Successes # {}) => Cardinality(Stage2Calls) = 1

\* C3 witness: three batches, the first failed, the other two succeeded with
\* different answers, and stage 2 was called
C3_Witness ==
    /\ Stage2Calls # {}
    /\ Cardinality(Stage1Calls) = 3
    /\ llmLog[1].reply = "error"
    /\ llmLog[2].reply = "r2"
    /\ llmLog[3].reply = "r1"

\* C4: when no stage-1 call succeeded (no batch at all included),
\* analyze_reviews raises and the stage-2 call is never made.
C4_NoSummaryNoStage2 ==
    /\ (Stage2Calls # {}) => (Stage1Successes # {})
    /\ (AnalyzeOver /\ Stage1Successes = {}) => (apc = "raised" /\ Stage2Calls = {})

\* C4 witness: every one of two or more batches failed and the call raised
C4_Witness ==
    /\ apc = "raised"
    /\ Cardinality(Stage1Calls) >= 2
    /\ Stage1Successes = {}

\* C5 (as claimed): a fresh fetch returns no record of a pull request whose
\* comment fetch failed, and every comment of the other pull requests of
\* pulls[:limit], in source order.
C5_FailingPullRequestSkipped ==
    (fpc = "returned_fresh") =>
        \A k \in 1..Len(PullsSlice) :
            LET p == PullsSlice[k]
            IN  IF PrWarning(p) \in warnings
                THEN RecordsOf(result, p) = <<>>
                ELSE RecordsOf(result, p) = CommentRecords(p, ncomments[p])

\* C6 (as claimed): when use_cache is requested and a snapshot exists (the
\* file is there and loads), that snapshot is returned and no request is
\* made to the hosting API, also when the snapshot holds no record.
C6_SnapshotReturnedWithoutNetwork ==
    (use_cache /\ cached.some) =>
        /\ ~contacted
        /\ fpc # "raised"
        /\ (fpc \in FetchReturned) => result = cached.val

\* C7 (as claimed): in every reachable state the cache file is absent or
\* holds a complete record set, never a half-written one.
C7_CacheNeverHalfWritten ==
    cacheFile.exists => cacheFile.complete

\* C8: a fresh fetch that returns has written its whole result to the cache
\* file unless the write failed; once the loop is over, a failing write
\* never makes get_pr_reviews raise, and the result is the reviews collected.
C8_FreshFetchSaved ==
    /\ [](/\ (fpc = "returned_fresh" /\ SaveWarning \notin warnings)
              => cacheFile = Snapshot(result)
          /\ (fpc = "returned_fresh") => result = reviews
          /\ (SaveWarning \in warnings) => fpc = "returned_fresh")
    /\ [][(fpc \in {"save_open", "save_dump"})
            => (fpc' \in {"save_dump", "returned_fresh", "interrupted"})]_vars

\* C8 witness: a fetch with use_cache not requested returned two or more
\* records and the cache file holds them
C8_Witness ==
    /\ fpc = "returned_fresh"
    /\ ~use_cache
    /\ Len(result) >= 2
    /\ SaveWarning \notin warnings
    /\ cacheFile = Snapshot(result)

\* C9 (as claimed): whatever get_pr_reviews returns, from the cache or not,
\* belongs to at most `limit` distinct pull requests.
C9_AtMostLimitPullRequests ==
    (fpc \in FetchReturned) => Cardinality(PrNumbers(result)) <= limit

\* C9 (amended): a freshly fetched result belongs to at most `limit`
\* distinct pull requests, all among the first `limit` closed ones; a result
\* served from the cache is the snapshot as stored, whatever the limit.
C9_FreshAtMostLimit ==
    /\ (fpc = "returned_fresh") =>
          /\ Cardinality(PrNumbers(result)) <= limit
          /\ \A p \in PrNumbers(result) : \E k \in 1..Min(limit, Len(pulls)) : pulls[k] = p
    /\ (fpc = "returned_cache") => result = cacheFile.items

\* C9 witness: a fresh fetch with a limit below the number of closed pull
\* requests returned records of `limit` pull requests, after an earlier call
\* had left a snapshot of more pull requests
C9_Witness ==
    /\ fpc = "returned_fresh"
    /\ limit >= 1
    /\ limit < Len(pulls)
    /\ Cardinality(PrNumbers(result)) = limit
    /\ \A k \in 1..Len(pulls) : ncomments[pulls[k]] > 0

\* C10: a run that fetched nothing ends in "nothing to do", which is no
\* error: no LLM call was made and no output file exists; main() is in
\* Summarizing, or has made an LLM call, only with a non-empty fetch result.
C10_EmptyFetchNothingToDo ==
    /\ (pc = "NothingToDo") =>
          /\ fpc \in FetchReturned
          /\ result = <<>>
          /\ error = None
          /\ apc = "idle"
          /\ llmLog = <<>>
          /\ outputFile = None
    /\ (pc = "Summarizing" \/ apc # "idle" \/ llmLog # <<>>) => result # <<>>
    /\ (fpc \in FetchReturned /\ result = <<>>) => pc \in {"Fetching", "NothingToDo", "Interrupted"}

\* C10 witness: the hosting API was asked, the pull requests had no review
\* comment, and the run ended in "nothing to do"
C10_Witness ==
    /\ pc = "NothingToDo"
    /\ contacted
    /\ pulls # <<>>

\* the pieces of a message
Pieces(msg) == {msg[k] : k \in DOMAIN msg}

C12_AbsentConfigFailsBeforeFetch ==
    (absent # {} /\ pc # "Idle") =>
        /\ error = "ConfigurationError"
        /\ initCalls = <<>>
        /\ ~contacted
        /\ llmLog = <<>>

\* C13 (as claimed): when the construction of the adapter fails (credential
\* rejected, repository not found or forbidden, other failure), main() is in
\* Failed, and no LLM call and no output write were made.
C13_InitErrorEndsFailed ==
    (initOutcome \in AuthFailures \cup RepoFailures) =>
        /\ pc = "Failed"
        /\ llmLog = <<>>
        /\ outputFile = None

\* the groups, one after the other
RECURSIVE Flatten(_)
Flatten(gs) == IF gs = <<>> THEN <<>> ELSE Head(gs) \o Flatten(Tail(gs))

\* where pull request p first occurs in rs
FirstAt(rs, p) ==
    CHOOSE k \in DOMAIN rs :
        rs[k].pr_number = p /\ \A j \in 1..(k - 1) : rs[j].pr_number # p

\* C15: the groups of analyze_reviews' input are one per distinct pr_number,
\* none empty, each the records of its pull request in input order, ordered
\* by the first occurrence of their pull request in the input; together they
\* hold as many records as the input.
C15_GroupsByFirstOccurrence ==
    (apc # "idle") =>
        /\ Len(pr_groups) = Cardinality(PrNumbers(areviews))
        /\ \A g \in DOMAIN pr_groups :
              /\ pr_groups[g] # <<>>
              /\ pr_groups[g] = RecordsOf(areviews, pr_groups[g][1].pr_number)
        /\ \A g, h \in DOMAIN pr_groups :
              (g < h) => FirstAt(areviews, pr_groups[g][1].pr_number)
                            < FirstAt(areviews, pr_groups[h][1].pr_number)
        /\ Len(Flatten(pr_groups)) = Len(areviews)

\* C15 witness: the input starts with a higher pull request number, then a
\* lower one, then the first again
C15_Witness ==
    /\ apc # "idle"
    /\ Len(areviews) >= 3
    /\ areviews[1].pr_number > areviews[2].pr_number
    /\ areviews[3].pr_number = areviews[1].pr_number
    /\ Len(pr_groups) = 2

\* the batches of the stage-1 calls, in the order of the calls
Stage1Batches ==
    LET calls == SelectSeq(llmLog, LAMBDA e : e.stage = 1)
    IN  [k \in 1..Len(calls) |-> calls[k].context[1]]

\* C16: once the stage-1 loop is over, ceil(n / 5) stage-1 calls were made
\* for n groups, one per batch; every batch but the last holds 5 groups, the
\* last between 1 and 5, and the batches in order make up the groups.
C16_BatchesPartitionGroups ==
    (apc \in {"stage2", "returned", "raised"}) =>
        LET m == Len(Stage1Batches)
        IN  /\ m * 5 >= Len(pr_groups)
            /\ (m - 1) * 5 < Len(pr_groups) \/ m = 0
            /\ \A k \in 1..(m - 1) : Len(Stage1Batches[k]) = 5
            /\ (m > 0) => Len(Stage1Batches[m]) \in 1..5
            /\ Flatten(Stage1Batches) = pr_groups

\* C16 witness: 12 groups were summarized in batches of 5, 5 and 2
C16_Witness ==
    /\ apc = "stage2"
    /\ Len(pr_groups) = 12
    /\ Len(Stage1Batches) = 3
    /\ Len(Stage1Batches[1]) = 5
    /\ Len(Stage1Batches[2]) = 5
    /\ Len(Stage1Batches[3]) = 2

\* the identifiers that name Owner/Repo: the shorthand, and the URL with or
\* without the scheme and with or without the .git suffix
OwnerRepoForms ==
    { <<"Owner", "/", "Repo">>,
      <<"host", "/", "Owner", "/", "Repo">>,
      <<"host", "/", "Owner", "/", "Repo", ".git">>,
      <<"https:", "/", "/", "host", "/", "Owner", "/", "Repo">>,
      <<"https:", "/", "/", "host", "/", "Owner", "/", "Repo", ".git">> }

\* C17 (as claimed): every identifier that names Owner/Repo, with or without
\* scheme and .git suffix, resolves to owner "Owner" and repo_name "Repo".
C17_KnownFormsResolve ==
    (parsed.state # "none" /\ repo_url \in OwnerRepoForms)
    => parsed = Returned(<<"Owner">>, <<"Repo">>)

\* the non-empty path segments of an identifier
PathSegments(u) == SelectSeq(Split(UrlPath(u)), LAMBDA seg : seg # <<>>)

\* C18 (as claimed): an identifier of fewer than two non-empty path segments
\* is refused with a format error, and no returned pair has an empty owner
\* or an empty repo_name.
C18_FewSegmentsRefused ==
    (parsed.state # "none") =>
        /\ (Len(PathSegments(repo_url)) < 2) => parsed.state = "raised"
        /\ (parsed.state = "returned") => (parsed.owner # <<>> /\ parsed.repo_name # <<>>)

\* C19: a rendered chunk of more than 500 characters is its first 500
\* characters and then "...", one of at most 500 characters is unchanged, and
\* truncating the rendered text again changes nothing.
C19_TruncateAt500 ==
    (code.state = "rendered") =>
        /\ (Len(code_chunk) > 500) =>
              /\ Len(code.text) = 503
              /\ \A k \in 1..500 : code.text[k] = code_chunk[k]
              /\ \A k \in 501..503 : code.text[k] = "."
        /\ (Len(code_chunk) <= 500) => code.text = code_chunk
        /\ Truncate(code.text) = code.text

\* C19 witness: a chunk of 502 characters was rendered
C19_Witness ==
    /\ code.state = "rendered"
    /\ Len(code_chunk) = 502
    /\ code_chunk[1] = "x"

\* C20 (as claimed): two clients for distinct (owner, repo_name) pairs
\* compute distinct cache paths.
C20_DistinctReposDistinctPaths ==
    (cachePaths # <<>> /\ repoIds[1] # repoIds[2]) => cachePaths[1] # cachePaths[2]

====
